---- MODULE Spec2Model ----
(***************************************************************************)
(* Model of nis2_scanner.py: Nis2ComplianceScanner.                        *)
(*                                                                         *)
(* Text is modelled as a sequence of one-character strings, so that        *)
(* str.strip, str.split and tuple unpacking are computed, not assumed.     *)
(* A call's result is a record [outcome, value, exc]: outcome "return"     *)
(* carries value, outcome "raise" carries the exception's class in exc.    *)
(***************************************************************************)
EXTENDS Integers, Sequences, FiniteSets, TLC

VARIABLES
    pc,             \* position of run_scan
    os_type,        \* self.os_type
    software_list,  \* run_scan local
    asset_management_data,  \* run_scan local
    network_data,   \* run_scan local
    report,         \* self.report
    raised,         \* class of the exception that left run_scan, or "none"
    invoked,        \* external facilities queried so far, in order
    dpkg,           \* observed response of the dpkg-query process
    rpm,            \* observed response of the rpm process
    registry,       \* observed content of the two uninstall keys
    net             \* observed behaviour of psutil during get_network_info

vars == <<pc, os_type, software_list, asset_management_data, network_data,
          report, raised, invoked, dpkg, rpm, registry, net>>

----------------------------------------------------------------------------
(* Bounds of the explored inputs.                                          *)

\* longest text a package-query process writes
MaxOut == 6

\* most subkeys under one uninstall key
MaxSubkeys == 2

\* most sockets psutil.net_connections reports
MaxConns == 2

----------------------------------------------------------------------------
(* Text.                                                                   *)

TAB == "\t"
NL == "\n"

Chars == {"a", TAB, NL}

Whitespace == {TAB, NL}

Texts(n) == UNION {[1..k -> Chars] : k \in 0..n}

RECURSIVE LStrip(_)
LStrip(s) ==
    IF s # <<>> /\ Head(s) \in Whitespace THEN LStrip(Tail(s)) ELSE s

RECURSIVE RStrip(_)
RStrip(s) ==
    IF s # <<>> /\ s[Len(s)] \in Whitespace
    THEN RStrip(SubSeq(s, 1, Len(s) - 1))
    ELSE s

\* str.strip()
Strip(s) == RStrip(LStrip(s))

\* str.split(sep): every occurrence of sep separates two pieces
RECURSIVE Split(_, _)
Split(s, sep) ==
    IF \A i \in 1..Len(s) : s[i] # sep
    THEN <<s>>
    ELSE LET i == CHOOSE j \in 1..Len(s) :
                      s[j] = sep /\ \A k \in 1..(j - 1) : s[k] # sep
         IN  <<SubSeq(s, 1, i - 1)>> \o Split(SubSeq(s, i + 1, Len(s)), sep)

----------------------------------------------------------------------------
(* Call results.                                                           *)

Return(v) == [outcome |-> "return", value |-> v, exc |-> "none"]
Raise(e) == [outcome |-> "raise", value |-> <<>>, exc |-> e]

----------------------------------------------------------------------------
(* get_installed_software_linux                                            *)

NotRun == [kind |-> "notrun", stdout |-> <<>>]

\* What a package-query process can do: exit 0 with some text on stdout,
\* not exist on the search path, or exit with a non-zero status.
ToolResponses ==
    {[kind |-> "ok", stdout |-> t] : t \in Texts(MaxOut)}
        \cup {[kind |-> "missing", stdout |-> <<>>],
              [kind |-> "nonzero", stdout |-> <<>>]}

\* subprocess_run with a slip: an exit status of 0 with nothing on stdout is
\* taken for a failed query.
subprocess_run_EmptyFails(resp) ==
    CASE resp.kind = "ok" /\ resp.stdout # <<>> -> Return(resp.stdout)
      [] resp.kind = "ok" /\ resp.stdout = <<>> -> Raise("CalledProcessError")
      [] resp.kind = "missing" -> Raise("FileNotFoundError")
      [] resp.kind = "nonzero" -> Raise("CalledProcessError")

\* subprocess.run(..., capture_output=True, text=True, check=True)
subprocess_run(resp) ==
    CASE resp.kind = "ok" -> Return(resp.stdout)
      [] resp.kind = "missing" -> Raise("FileNotFoundError")
      [] resp.kind = "nonzero" -> Raise("CalledProcessError")

\* for line in ...: if line: name, version = line.split('\t'); append
RECURSIVE ParseLines(_, _)
ParseLines(lines, packages) ==
    IF lines = <<>>
    THEN Return(packages)
    ELSE LET line == Head(lines)
             parts == Split(line, TAB)
         IN  IF line = <<>>
             THEN ParseLines(Tail(lines), packages)
             ELSE IF Len(parts) # 2
                  THEN Raise("ValueError")
                  ELSE ParseLines(Tail(lines),
                           Append(packages,
                                  [name |-> parts[1], version |-> parts[2]]))

\* The body of one try block: run the tool, parse its output, return.
QueryPackages(resp, packages) ==
    LET result == subprocess_run(resp)
    IN  IF result.outcome = "raise"
        THEN result
        ELSE ParseLines(Split(Strip(result.value), NL), packages)

Caught == {"CalledProcessError", "FileNotFoundError"}

ErrNoPackageManager ==
    [error |-> "Could not determine the package manager (neither dpkg nor rpm)"]

----------------------------------------------------------------------------
(* get_installed_software_windows                                          *)

\* Values winreg.QueryValueEx can return for DisplayVersion: a REG_SZ string
\* or a REG_DWORD number.
RegValues ==
    {[type |-> "REG_SZ", text |-> "1.0", num |-> 0],
     [type |-> "REG_SZ", text |-> "2", num |-> 0],
     [type |-> "REG_DWORD", text |-> "", num |-> 2]}

Digits == <<"0", "1", "2", "3", "4", "5", "6", "7", "8", "9">>

\* str(version), for the values of RegValues
str(v) == IF v.type = "REG_DWORD" THEN Digits[v.num + 1] ELSE v.text

NoValue == [type |-> "REG_NONE", text |-> "", num |-> 0]

\* A subkey of an uninstall key: it cannot be enumerated or opened, it has
\* no DisplayName, it has a DisplayName and no DisplayVersion, or it has
\* both.
Subkeys ==
    {[kind |-> "unopenable", name |-> "", version |-> NoValue],
     [kind |-> "noname", name |-> "", version |-> NoValue],
     [kind |-> "noversion", name |-> "Tool", version |-> NoValue]}
        \cup {[kind |-> "values", name |-> "Tool", version |-> v] :
                  v \in RegValues}

SubkeyLists == UNION {[1..k -> Subkeys] : k \in 0..MaxSubkeys}

\* One uninstall key: absent, or present with its subkeys.
RegPaths ==
    {[present |-> FALSE, subkeys |-> <<>>]}
        \cup {[present |-> TRUE, subkeys |-> l] : l \in SubkeyLists}

\* uninstall_paths: the native key and the WOW6432Node key
Registries == [1..2 -> RegPaths]

\* for i in range(...): the loop over the subkeys of one key.  EnumKey or
\* OpenKey failing raises OSError out of the loop; what was appended to
\* packages before stays appended.
RECURSIVE ScanSubkeys(_, _)
ScanSubkeys(subkeys, packages) ==
    IF subkeys = <<>>
    THEN packages
    ELSE LET k == Head(subkeys)
         IN  CASE k.kind = "unopenable" -> packages
               [] k.kind = "values" ->
                     ScanSubkeys(Tail(subkeys),
                         Append(packages,
                                [name |-> k.name, version |-> str(k.version)]))
               [] OTHER -> ScanSubkeys(Tail(subkeys), packages)

\* for path in uninstall_paths: try ... except OSError: pass
RECURSIVE ScanPaths(_, _)
ScanPaths(paths, packages) ==
    IF paths = <<>>
    THEN packages
    ELSE LET path == Head(paths)
         IN  ScanPaths(Tail(paths),
                 IF path.present
                 THEN ScanSubkeys(path.subkeys, packages)
                 ELSE packages)

\* tuple(d.items())
items(d) == <<<<"name", d.name>>, <<"version", d.version>>>>

\* dict(t)
dict(t) == [name |-> t[1][2], version |-> t[2][2]]

\* {tuple(d.items()) for d in packages}
UniqueItems(packages) == {items(packages[i]) : i \in DOMAIN packages}

\* The lists that enumerate the set S, each element once: a Python set
\* iterates in an order the program does not choose.
Orderings(S) ==
    {f \in [1..Cardinality(S) -> S] :
        \A i, j \in 1..Cardinality(S) : f[i] = f[j] => i = j}

\* unique_packages with a slip: the list is returned as it was collected.
unique_packages_NoDedup(packages) == {packages}

\* unique_packages = [dict(t) for t in {...}]: the lists the comprehension
\* can build from packages
unique_packages(packages) ==
    {[i \in DOMAIN o |-> dict(o[i])] : o \in Orderings(UniqueItems(packages))}

----------------------------------------------------------------------------
(* get_network_info                                                        *)

\* conn.pid: None, or a process id
NoPid == <<>>
Pid(n) == <<n>>

\* if conn.pid:
Truthy(pid) == pid # NoPid /\ pid[1] # 0

\* What psutil.Process(conn.pid).name() does for the socket's process when
\* it is asked.
Lookups ==
    {Return("sshd"), Raise("NoSuchProcess"), Raise("AccessDenied")}

Endpoints ==
    {[port |-> 22, ip |-> "0.0.0.0", type |-> "SOCK_STREAM"],
     [port |-> 53, ip |-> "::", type |-> "SOCK_DGRAM"]}

Statuses == {"LISTEN", "ESTABLISHED"}

Owners ==
    {[pid |-> NoPid, lookup |-> Raise("NoSuchProcess")],
     [pid |-> Pid(0), lookup |-> Return("System Idle Process")]}
        \cup {[pid |-> Pid(7), lookup |-> l] : l \in Lookups}

\* The records psutil.net_connections(kind='inet') can hold
Conns ==
    {[status |-> st, laddr |-> [port |-> e.port, ip |-> e.ip],
      type |-> e.type, pid |-> o.pid, lookup |-> o.lookup] :
         st \in Statuses, e \in Endpoints, o \in Owners}

ConnLists == UNION {[1..k -> Conns] : k \in 0..MaxConns}

\* psutil during one call of get_network_info: net_connections raises, or
\* returns a list of records
NetEnvs ==
    {[fail |-> TRUE, exc |-> "PermissionError", conns |-> <<>>]}
        \cup {[fail |-> FALSE, exc |-> "none", conns |-> l] : l \in ConnLists}

\* proc_name for one LISTEN socket
ProcName(conn) ==
    IF Truthy(conn.pid)
    THEN IF conn.lookup.outcome = "raise" /\ conn.lookup.exc = "NoSuchProcess"
         THEN Return("Process terminated")
         ELSE conn.lookup
    ELSE Return("N/A")

Protocol(conn) == IF conn.type = "SOCK_STREAM" THEN "TCP" ELSE "UDP"

\* ListenLoop with a slip: the test of conn.status is missing.
RECURSIVE ListenLoop_NoFilter(_, _)
ListenLoop_NoFilter(connections, listening_connections) ==
    IF connections = <<>>
    THEN Return(listening_connections)
    ELSE LET conn == Head(connections)
             proc_name == ProcName(conn)
         IN  IF proc_name.outcome = "raise"
             THEN proc_name
             ELSE ListenLoop_NoFilter(Tail(connections),
                      Append(listening_connections,
                             [port |-> conn.laddr.port,
                              address |-> conn.laddr.ip,
                              protocol |-> Protocol(conn),
                              process_name |-> proc_name.value]))

\* for conn in connections: ...
RECURSIVE ListenLoop(_, _)
ListenLoop(connections, listening_connections) ==
    IF connections = <<>>
    THEN Return(listening_connections)
    ELSE LET conn == Head(connections)
             proc_name == ProcName(conn)
         IN  IF conn.status = "LISTEN"
             THEN IF proc_name.outcome = "raise"
                  THEN proc_name
                  ELSE ListenLoop(Tail(connections),
                           Append(listening_connections,
                                  [port |-> conn.laddr.port,
                                   address |-> conn.laddr.ip,
                                   protocol |-> Protocol(conn),
                                   process_name |-> proc_name.value]))
             ELSE ListenLoop(Tail(connections), listening_connections)

\* f"Error getting network information: {e}"
NetError(e) == [error |-> <<"Error getting network information: ", e>>]

\* get_network_info with a slip: the handler swallows the exception and the
\* empty list is returned.
get_network_info_Swallow(env) ==
    LET body == IF env.fail
                THEN Raise(env.exc)
                ELSE ListenLoop(env.conns, <<>>)
    IN  IF body.outcome = "raise"
        THEN <<>>
        ELSE body.value

get_network_info(env) ==
    LET body == IF env.fail
                THEN Raise(env.exc)
                ELSE ListenLoop(env.conns, <<>>)
    IN  IF body.outcome = "raise"
        THEN <<NetError(body.exc)>>
        ELSE body.value

----------------------------------------------------------------------------
(* run_scan and the collectors it calls.  The collectors' actions take a   *)
(* flag keep: with keep the environment's response is recorded in its      *)
(* variable, so that a property can relate the collector's result to its   *)
(* input; without it only the program's own state changes.                 *)

NoRegistry == <<>>
NoNet == [fail |-> FALSE, exc |-> "none", conns |-> <<>>]

\* self.report = {}
NoReport == <<>>

Observed(keep, x, none) == IF keep THEN x ELSE none

\* A call made by run_scan ends: a returned value goes on to the statement
\* at nextpc, an exception leaves run_scan.
Land(call, nextpc) ==
    /\ pc' = IF call.outcome = "return" THEN nextpc ELSE "raised"
    /\ raised' = call.exc

OsTypes == {"Linux", "Windows", "Darwin", "FreeBSD"}

ErrUnsupported(os) == [error |-> <<"Operating system ", os, " is not supported">>]

\* Dispatch with a slip: every family other than Windows is taken for Linux.
Dispatch_LinuxDefault ==
    /\ pc = "start"
    /\ pc' = IF os_type = "Windows" THEN "winreg" ELSE "dpkg"
    /\ UNCHANGED <<os_type, software_list, asset_management_data, network_data,
                   report, raised, invoked, dpkg, rpm, registry, net>>

\* run_scan: the if / elif / else on self.os_type
Dispatch ==
    /\ pc = "start"
    /\ CASE os_type = "Linux" ->
              /\ pc' = "dpkg"
              /\ UNCHANGED software_list
         [] os_type = "Windows" ->
              /\ pc' = "winreg"
              /\ UNCHANGED software_list
         [] OTHER ->
              /\ pc' = "asset"
              /\ software_list' = <<ErrUnsupported(os_type)>>
    /\ UNCHANGED <<os_type, asset_management_data, network_data, report,
                   raised, invoked, dpkg, rpm, registry, net>>

\* get_installed_software_linux, first try block: dpkg-query.  An exception
\* of a caught class enters the handler; any other leaves the collector.
QueryDpkg(keep) ==
    /\ pc = "dpkg"
    /\ \E d \in ToolResponses :
         LET call == QueryPackages(d, <<>>)
         IN  /\ IF call.outcome = "raise" /\ call.exc \in Caught
                THEN /\ pc' = "rpm"
                     /\ UNCHANGED <<raised, software_list>>
                ELSE /\ Land(call, "asset")
                     /\ software_list' = call.value
             /\ dpkg' = Observed(keep, d, NotRun)
    /\ invoked' = Append(invoked, "dpkg-query")
    /\ UNCHANGED <<os_type, asset_management_data, network_data, report,
                   rpm, registry, net>>

\* get_installed_software_linux, handler of the first try block: rpm.
QueryRpm(keep) ==
    /\ pc = "rpm"
    /\ \E r \in ToolResponses :
         LET call == QueryPackages(r, <<>>)
             result == IF call.outcome = "raise" /\ call.exc \in Caught
                       THEN Return(<<ErrNoPackageManager>>)
                       ELSE call
         IN  /\ Land(result, "asset")
             /\ software_list' = result.value
             /\ rpm' = Observed(keep, r, NotRun)
    /\ invoked' = Append(invoked, "rpm")
    /\ UNCHANGED <<os_type, asset_management_data, network_data, report,
                   dpkg, registry, net>>

\* get_installed_software_windows
ScanRegistry(keep) ==
    /\ pc = "winreg"
    /\ \E reg \in Registries :
         /\ software_list' \in unique_packages(ScanPaths(reg, <<>>))
         /\ registry' = Observed(keep, reg, NoRegistry)
    /\ pc' = "asset"
    /\ invoked' = Append(invoked, "winreg")
    /\ UNCHANGED <<os_type, asset_management_data, network_data, report,
                   raised, dpkg, rpm, net>>

get_system_info ==
    [os_type |-> os_type, os_release |-> "release", os_version |-> "version",
     architecture |-> "machine", hostname |-> "host"]

\* run_scan: asset_management_data = {...}
BuildAsset ==
    /\ pc = "asset"
    /\ asset_management_data' =
           [system_info |-> get_system_info,
            installed_software_sbom |-> software_list]
    /\ pc' = "network"
    /\ UNCHANGED <<os_type, software_list, network_data, report, raised,
                   invoked, dpkg, rpm, registry, net>>

\* run_scan: network_data = self.get_network_info()
AnalyzeNetwork ==
    /\ pc = "network"
    /\ \E env \in NetEnvs :
         /\ network_data' = get_network_info(env)
         /\ net' = env
    /\ pc' = "report"
    /\ invoked' = Append(invoked, "net_connections")
    /\ UNCHANGED <<os_type, software_list, asset_management_data, report,
                   raised, dpkg, rpm, registry>>

\* run_scan: self.report = {...}; return self.report
BuildReport ==
    /\ pc = "report"
    /\ report' =
           [scan_metadata |->
                [scan_time_utc |-> "utcnow", scanner_version |-> "0.1.0"],
            nis2_compliance_checks |->
                [article_21_asset_management |->
                     [title |-> "Asset and Software Inventory (SBOM)",
                      status |-> "COMPLETED",
                      data |-> asset_management_data],
                 article_21_system_security |->
                     [title |-> "Basic System Security Analysis (Open Ports)",
                      status |-> "COMPLETED",
                      data |-> [listening_ports |-> network_data]]]]
    /\ pc' = "done"
    /\ UNCHANGED <<os_type, software_list, asset_management_data,
                   network_data, raised, invoked, dpkg, rpm, registry, net>>

\* __init__ has run; nothing has been collected
InitCommon ==
    /\ software_list = <<>>
    /\ asset_management_data = <<>>
    /\ network_data = <<>>
    /\ report = NoReport
    /\ raised = "none"
    /\ invoked = <<>>
    /\ dpkg = NotRun
    /\ rpm = NotRun
    /\ registry = NoRegistry
    /\ net = NoNet

Init ==
    /\ pc = "start"
    /\ os_type \in OsTypes
    /\ InitCommon

ScanDpkg == QueryDpkg(FALSE)
ScanRpm == QueryRpm(FALSE)
ScanWinreg == ScanRegistry(FALSE)

Next ==
    \/ Dispatch
    \/ ScanDpkg
    \/ ScanRpm
    \/ ScanWinreg
    \/ BuildAsset
    \/ AnalyzeNetwork
    \/ BuildReport

Spec == Init /\ [][Next]_vars

----------------------------------------------------------------------------
(* The Linux collector alone, entered from run_scan, the tools' responses  *)
(* recorded.                                                               *)

InitLinux ==
    /\ pc = "dpkg"
    /\ os_type = "Linux"
    /\ InitCommon

LinuxDpkg == QueryDpkg(TRUE)
LinuxRpm == QueryRpm(TRUE)

NextLinux == LinuxDpkg \/ LinuxRpm

SpecLinux == InitLinux /\ [][NextLinux]_vars

----------------------------------------------------------------------------
(* The Windows collector alone, entered from run_scan, the registry's      *)
(* content recorded.                                                       *)

InitWindows ==
    /\ pc = "winreg"
    /\ os_type = "Windows"
    /\ InitCommon

WindowsScan == ScanRegistry(TRUE)

NextWindows == WindowsScan

SpecWindows == InitWindows /\ [][NextWindows]_vars

----------------------------------------------------------------------------
(* Properties of the Linux collector, under SpecLinux.                     *)

TabCount(line) == Cardinality({i \in 1..Len(line) : line[i] = TAB})

NonEmpty(line) == line # <<>>

\* A non-empty line of the tool's output with zero tabs or several
Malformed(out) ==
    \E i \in DOMAIN Split(out, NL) :
        LET line == Split(out, NL)[i]
        IN  NonEmpty(line) /\ TabCount(line) # 1

FirstTab(line) ==
    CHOOSE i \in 1..Len(line) : line[i] = TAB /\ \A k \in 1..(i - 1) : line[k] # TAB

\* The entry a line stands for when it is split on its first tab only
SplitFirst(line) ==
    [name |-> SubSeq(line, 1, FirstTab(line) - 1),
     version |-> SubSeq(line, FirstTab(line) + 1, Len(line))]

\* The non-empty lines of the text the parser reads
ReadLines(out) == SelectSeq(Split(Strip(out), NL), NonEmpty)

Failed(resp) == resp.kind \in {"missing", "nonzero"}

Returned == pc = "asset"

\* The tool whose output was parsed into the returned list
ParsedTool == IF rpm = NotRun THEN dpkg ELSE rpm

\* C2: a malformed line in the dpkg-style output makes the collector go on
\* to the rpm-style query, and a malformed line from either tool never
\* leaves the collector as an exception.
C2_MalformedIsUnavailable ==
    /\ (dpkg.kind = "ok" /\ Malformed(dpkg.stdout))
           => (pc = "rpm" \/ rpm # NotRun)
    /\ (dpkg.kind = "ok" /\ Malformed(dpkg.stdout)) => pc # "raised"
    /\ (rpm.kind = "ok" /\ Malformed(rpm.stdout)) => pc # "raised"

\* C3: the collector is a first-success selector over <<dpkg, rpm>>: when
\* dpkg-query exists and exits 0, also with no package in its output, rpm is
\* never run and a returned result is the list of dpkg's lines; rpm is run
\* only after dpkg-query was missing or exited non-zero; when both fail the
\* result is the one error record naming neither dpkg nor rpm.
C3_FirstSuccess ==
    /\ invoked \in {<<>>, <<"dpkg-query">>, <<"dpkg-query", "rpm">>}
    /\ (rpm # NotRun) <=> (invoked = <<"dpkg-query", "rpm">>)
    /\ dpkg.kind = "ok" =>
           /\ invoked = <<"dpkg-query">>
           /\ pc \in {"asset", "raised"}
           /\ Returned =>
                  /\ Len(software_list) = Len(ReadLines(dpkg.stdout))
                  /\ \A i \in DOMAIN software_list :
                         software_list[i] = SplitFirst(ReadLines(dpkg.stdout)[i])
    /\ (pc = "rpm" \/ rpm # NotRun) => Failed(dpkg)
    /\ (Failed(dpkg) /\ Failed(rpm)) =>
           /\ Returned
           /\ software_list = <<ErrNoPackageManager>>

\* dpkg-query exits 0 having printed nothing: the empty list is the result
\* and rpm was not run.
C3_Witness ==
    /\ Returned
    /\ dpkg.kind = "ok"
    /\ dpkg.stdout = <<>>
    /\ software_list = <<>>
    /\ invoked = <<"dpkg-query">>

\* C4: every entry of a returned package list has a non-empty name and a
\* non-empty version, and is one line of the tool's output split on its
\* first tab.
C4_EntriesNonEmpty ==
    (Returned /\ software_list # <<ErrNoPackageManager>>) =>
        /\ Len(software_list) = Len(ReadLines(ParsedTool.stdout))
        /\ \A i \in DOMAIN software_list :
               /\ TabCount(ReadLines(ParsedTool.stdout)[i]) >= 1
               /\ software_list[i] = SplitFirst(ReadLines(ParsedTool.stdout)[i])
               /\ software_list[i].name # <<>>
               /\ software_list[i].version # <<>>

----------------------------------------------------------------------------
(* Properties of the Windows collector, under SpecWindows.                 *)

\* Subkey i of a key is read when the key is present and no subkey up to i
\* fails to open.
IsRead(path, i) ==
    /\ path.present
    /\ \A j \in 1..i : path.subkeys[j].kind # "unopenable"

\* The (name, version) pairs the scan reads from the two keys
ReadPairs(reg) ==
    {[name |-> reg[p].subkeys[i].name, version |-> str(reg[p].subkeys[i].version)] :
        <<p, i>> \in {<<q, j>> \in (1..2) \X (1..(MaxSubkeys + 1)) :
                          /\ j \in DOMAIN reg[q].subkeys
                          /\ IsRead(reg[q], j)
                          /\ reg[q].subkeys[j].kind = "values"}}

\* C7: the list the Windows collector returns has no two equal entries and
\* holds every (name, version) pair that was read, each once.
C7_NoDuplicates ==
    Returned =>
        /\ \A i, j \in DOMAIN software_list :
               software_list[i] = software_list[j] => i = j
        /\ {software_list[i] : i \in DOMAIN software_list} = ReadPairs(registry)

\* The same pair is registered under both keys, once as the string "2" and
\* once as the number 2, and the returned list holds it once.
C7_Witness ==
    /\ Returned
    /\ registry # NoRegistry
    /\ \E i \in DOMAIN registry[1].subkeys, j \in DOMAIN registry[2].subkeys :
           /\ IsRead(registry[1], i)
           /\ IsRead(registry[2], j)
           /\ registry[1].subkeys[i].kind = "values"
           /\ registry[2].subkeys[j].kind = "values"
           /\ registry[1].subkeys[i].version.type = "REG_SZ"
           /\ registry[2].subkeys[j].version.type = "REG_DWORD"
           /\ str(registry[1].subkeys[i].version) = str(registry[2].subkeys[j].version)
    /\ Len(software_list) = 1

----------------------------------------------------------------------------
(* Properties of get_network_info and of run_scan, under Spec.             *)

NetDone == pc \in {"report", "done"}

IsErrorList(l) == Len(l) = 1 /\ "error" \in DOMAIN l[1]

IsListen(conn) == conn.status = "LISTEN"

\* The LISTEN sockets of the enumeration, in its order
ListenOnly(conns) == SelectSeq(conns, IsListen)

HasPid(conn) == conn.pid # NoPid

LookupFailed(conn) == HasPid(conn) /\ conn.lookup.outcome = "raise"

ProcessExited(conn) ==
    HasPid(conn) /\ conn.lookup.outcome = "raise" /\ conn.lookup.exc = "NoSuchProcess"

\* Entry k of the result stands for the k-th LISTEN socket.
EntryOf(k) == ListenOnly(net.conns)[k]

Listed ==
    /\ NetDone
    /\ ~IsErrorList(network_data)

\* C5: a socket record without a process id gets process_name "N/A", one
\* whose process id can no longer be resolved gets "Process terminated", and
\* neither sentinel is given under the other condition: "N/A" is never given
\* to a socket record that carries a process id.
C5_Sentinels ==
    Listed =>
        \A k \in DOMAIN network_data :
            /\ ~HasPid(EntryOf(k)) => network_data[k].process_name = "N/A"
            /\ ProcessExited(EntryOf(k))
                   => network_data[k].process_name = "Process terminated"
            /\ network_data[k].process_name = "N/A" => ~HasPid(EntryOf(k))
            /\ network_data[k].process_name = "Process terminated"
                   => ProcessExited(EntryOf(k))

\* An exception leaves the loop of get_network_info, or net_connections
\* itself raises.
Collapses(env) ==
    \/ env.fail
    \/ \E i \in DOMAIN env.conns :
           /\ IsListen(env.conns[i])
           /\ Truthy(env.conns[i].pid)
           /\ env.conns[i].lookup.outcome = "raise"
           /\ env.conns[i].lookup.exc # "NoSuchProcess"

SbomOf(r) ==
    r.nis2_compliance_checks.article_21_asset_management.data.installed_software_sbom

PortsOf(r) ==
    r.nis2_compliance_checks.article_21_system_security.data.listening_ports

\* C6: when socket enumeration fails the collector's result is one error
\* record and nothing else, and the package section of the report is the
\* package payload collected before, which the network step leaves alone.
C6_FacilityFailure ==
    /\ [](NetDone /\ net.fail => network_data = <<NetError(net.exc)>>)
    /\ [](NetDone /\ Collapses(net) =>
              /\ IsErrorList(network_data)
              /\ \A k \in DOMAIN network_data : DOMAIN network_data[k] = {"error"})
    /\ [][pc = "network" =>
              /\ software_list' = software_list
              /\ asset_management_data' = asset_management_data]_vars
    /\ [](pc = "done" =>
              /\ SbomOf(report) = software_list
              /\ PortsOf(report) = network_data)

\* net_connections raised after a package list with an entry was collected;
\* the report holds the entry and the one error record.
C6_Witness ==
    /\ pc = "done"
    /\ net.fail
    /\ Len(SbomOf(report)) >= 1
    /\ "name" \in DOMAIN SbomOf(report)[1]
    /\ Len(PortsOf(report)) = 1

\* C8: every entry of the returned list stands for an enumerated socket in
\* state LISTEN, and no socket in another state has an entry.
C8_ListenOnly ==
    Listed =>
        /\ Len(network_data) = Len(ListenOnly(net.conns))
        /\ \A k \in DOMAIN network_data :
               /\ EntryOf(k).status = "LISTEN"
               /\ network_data[k].port = EntryOf(k).laddr.port
               /\ network_data[k].address = EntryOf(k).laddr.ip
               /\ network_data[k].protocol = Protocol(EntryOf(k))

\* An ESTABLISHED socket and a LISTEN socket were enumerated; only the
\* LISTEN socket has an entry.
C8_Witness ==
    /\ Listed
    /\ Len(net.conns) = 2
    /\ net.conns[1].status = "ESTABLISHED"
    /\ net.conns[2].status = "LISTEN"
    /\ Len(network_data) = 1
    /\ network_data[1].port = net.conns[2].laddr.port

\* C10: a failed process-name lookup touches only its own socket's entry:
\* the result is never the error form because of it, the socket is listed
\* with a sentinel name, and every other LISTEN socket is listed once, in
\* enumeration order, with its own process name.
C10_LookupFailureIsLocal ==
    (NetDone /\ ~net.fail) =>
        /\ ~IsErrorList(network_data)
        /\ Len(network_data) = Len(ListenOnly(net.conns))
        /\ \A k \in DOMAIN network_data :
               /\ network_data[k].port = EntryOf(k).laddr.port
               /\ network_data[k].address = EntryOf(k).laddr.ip
               /\ (Truthy(EntryOf(k).pid) /\ LookupFailed(EntryOf(k)))
                      => network_data[k].process_name
                             \in {"N/A", "Process terminated"}
               /\ (Truthy(EntryOf(k).pid) /\ ~LookupFailed(EntryOf(k)))
                      => network_data[k].process_name = EntryOf(k).lookup.value

Unsupported == os_type \notin {"Linux", "Windows"}

\* C1: whatever the collectors meet, run_scan does not end in an exception
\* and the report it returns has both sections, each with status COMPLETED.
C1_ReportAlwaysBuilt ==
    /\ pc # "raised"
    /\ pc = "done" =>
           /\ DOMAIN report.nis2_compliance_checks =
                  {"article_21_asset_management", "article_21_system_security"}
           /\ report.nis2_compliance_checks.article_21_asset_management.status
                  = "COMPLETED"
           /\ report.nis2_compliance_checks.article_21_system_security.status
                  = "COMPLETED"

\* C9: on a platform family other than Linux and Windows, run_scan runs no
\* package strategy, the package payload is the one error record naming the
\* family, and the socket collector still runs and its result is the
\* open-port section.
C9_UnsupportedPlatform ==
    Unsupported =>
        /\ pc \in {"start", "asset", "network", "report", "done"}
        /\ \A i \in DOMAIN invoked : invoked[i] = "net_connections"
        /\ pc # "start" => software_list = <<ErrUnsupported(os_type)>>
        /\ NetDone =>
               /\ invoked = <<"net_connections">>
               /\ network_data = get_network_info(net)
        /\ pc = "done" =>
               /\ SbomOf(report) = <<ErrUnsupported(os_type)>>
               /\ PortsOf(report) = get_network_info(net)

\* On Darwin the report carries the error record for the packages and an
\* entry for a listening socket.
C9_Witness ==
    /\ pc = "done"
    /\ os_type = "Darwin"
    /\ SbomOf(report) = <<ErrUnsupported("Darwin")>>
    /\ Len(net.conns) = 1
    /\ Len(PortsOf(report)) = 1
    /\ "port" \in DOMAIN PortsOf(report)[1]

====
